---- MODULE Spec2Model ----
(***************************************************************************)
(* apply_psf of notebooks/psf.ipynb: the PSF kernel is convolved with each *)
(* spectral plane of a datacube (jax.scipy.signal.convolve2d, mode="same") *)
(* and the planes are stacked and transposed back to (x, y, channel).      *)
(*                                                                         *)
(* Arrays are records [shape, at]: shape is the tuple of dimensions, at    *)
(* maps every 0-based index tuple to the value stored there.  Values are   *)
(* integers: products and sums are exact, so rounding of the float32       *)
(* arithmetic is outside the model.                                        *)
(***************************************************************************)
EXTENDS Integers, Sequences, FiniteSets, TLC

\* Bounds of the explored inputs.
MaxX == 3
MaxY == 2
MaxC == 2
MaxKH == MaxX
MaxKW == MaxY

---------------------------------------------------------------------------
\* Arrays

Indices(shape) ==
  CASE Len(shape) = 0 -> {<< >>}
    [] Len(shape) = 1 -> {<<a>> : a \in 0..(shape[1] - 1)}
    [] Len(shape) = 2 -> (0..(shape[1] - 1)) \X (0..(shape[2] - 1))
    [] Len(shape) = 3 ->
         (0..(shape[1] - 1)) \X (0..(shape[2] - 1)) \X (0..(shape[3] - 1))

\* Row-major position of an index tuple.
RECURSIVE LinIndex(_, _, _)
LinIndex(shape, idx, n) ==
  IF n = 0 THEN 0 ELSE LinIndex(shape, idx, n - 1) * shape[n] + idx[n]

Size(a) == Cardinality(DOMAIN a.at)

Ndim(a) == Len(a.shape)

Zeros(shape) == [shape |-> shape, at |-> [p \in Indices(shape) |-> 0]]

Ones(shape) == [shape |-> shape, at |-> [p \in Indices(shape) |-> 1]]

\* One entry of value 1, zero elsewhere.
Delta(shape, q) ==
  [shape |-> shape, at |-> [p \in Indices(shape) |-> IF p = q THEN 1 ELSE 0]]

\* All entries different: 1, 2, 3, ... in row-major order.
Ramp(shape) ==
  [shape |-> shape,
   at |-> [p \in Indices(shape) |-> 1 + LinIndex(shape, p, Len(shape))]]

\* The kernels explored for a shape: uniform, all entries different, and a
\* single 1 at any entry.
KernelsOf(shape) ==
  {Ones(shape), Ramp(shape)} \cup {Delta(shape, q) : q \in Indices(shape)}

\* The arrays explored as datacube for a shape: uniform, all entries
\* different, and a single 1 at any pixel of the last channel (of the last
\* axis, for an array without channel axis).
CubesOf(shape) ==
  {Ones(shape), Ramp(shape)}
    \cup {Delta(shape, q) : q \in {r \in Indices(shape) :
                                    Len(shape) = 0 \/ r[Len(shape)] = shape[Len(shape)] - 1}}

RECURSIVE SumF(_, _)
\* f[0] + ... + f[n-1]
SumF(f, n) == IF n = 0 THEN 0 ELSE f[n - 1] + SumF(f, n - 1)

\* Sum of all entries of a 2-D array.
Total(a) ==
  SumF([x \in 0..(a.shape[1] - 1) |->
          SumF([y \in 0..(a.shape[2] - 1) |-> a.at[<<x, y>>]], a.shape[2])],
       a.shape[1])

NoArray == [shape |-> <<"none">>, at |-> << >>]

Ok(a) == [ok |-> TRUE, val |-> a, err |-> "none"]

Raise(e) == [ok |-> FALSE, val |-> NoArray, err |-> e]

---------------------------------------------------------------------------
\* jax.numpy / jax.scipy.signal as used by the notebook

\* ShapeIndex with a missing axis read as an axis of extent 1.
ShapeIndexLenient(shape, k) ==
  [ok |-> TRUE, val |-> IF k < Len(shape) THEN shape[k + 1] ELSE 1, err |-> "none"]

\* datacube_dimensions[k] for a 0-based k: a tuple index out of range raises.
ShapeIndex(shape, k) ==
  IF k < Len(shape) THEN [ok |-> TRUE, val |-> shape[k + 1], err |-> "none"]
  ELSE [ok |-> FALSE, val |-> 0, err |-> "IndexError"]

\* Plane with the channel index ignored: datacube[:, :, 0].
PlaneFirst(cube, c) ==
  [shape |-> <<cube.shape[1], cube.shape[2]>>,
   at |-> [p \in (0..(cube.shape[1] - 1)) \X (0..(cube.shape[2] - 1)) |->
             cube.at[<<p[1], p[2], 0>>]]]

\* datacube[:, :, i]
Plane(cube, c) ==
  [shape |-> <<cube.shape[1], cube.shape[2]>>,
   at |-> [p \in (0..(cube.shape[1] - 1)) \X (0..(cube.shape[2] - 1)) |->
             cube.at[<<p[1], p[2], c>>]]]

\* Flip left out: the kernel is correlated with the plane, not convolved.
FlipMissing(a) == a

\* jnp.flip of a 2-D array: both axes reversed.
Flip(a) ==
  [shape |-> a.shape,
   at |-> [p \in DOMAIN a.at |->
             a.at[<<a.shape[1] - 1 - p[1], a.shape[2] - 1 - p[2]>>]]]

\* SamePadding with the output aligned to kernel index s_o div 2.
UpperCentrePadding(s, s_o) ==
  <<s - 1 - (s_o \div 2), s - s_o + (s_o \div 2)>>

\* The padding of mode="valid" where mode="same" is meant.
ValidPadding(s, s_o) == <<0, 0>>

\* The (low, high) padding of one axis under mode="same": s is the extent of
\* the second operand after the swap, s_o the extent of the original kernel.
SamePadding(s, s_o) ==
  <<s - 1 - ((s_o - 1) \div 2), s - s_o + ((s_o - 1) \div 2)>>

\* An entry of lhs after padding (a negative padding crops): zero outside.
Padded(lhs, x, y) ==
  IF <<x, y>> \in DOMAIN lhs.at THEN lhs.at[<<x, y>>] ELSE 0

\* lax.conv_general_dilated with unit strides on one 2-D feature map: the
\* cross-correlation of the padded lhs with rhs.
conv_general_dilated(lhs, rhs, padding) ==
  LET oh == lhs.shape[1] + padding[1][1] + padding[1][2] - rhs.shape[1] + 1
      ow == lhs.shape[2] + padding[2][1] + padding[2][2] - rhs.shape[2] + 1
  IN [shape |-> <<oh, ow>>,
      at |-> [p \in (0..(oh - 1)) \X (0..(ow - 1)) |->
                SumF([t \in 0..(rhs.shape[1] - 1) |->
                        SumF([u \in 0..(rhs.shape[2] - 1) |->
                                Padded(lhs, p[1] + t - padding[1][1],
                                            p[2] + u - padding[2][1])
                                  * rhs.at[<<t, u>>]],
                             rhs.shape[2])],
                     rhs.shape[1])]]

\* Which operand order _convolve_nd accepts: in1 at least as large as in2 in
\* every axis (no_swap), or at most as large in every axis (swap).
NoSwap(s1, s2) == \A d \in 1..Len(s1) : s1[d] >= s2[d]

Swap(s1, s2) == \A d \in 1..Len(s1) : s1[d] <= s2[d]

\* Orderable with the swap left out: a kernel larger than the plane is refused.
OrderableNoSwap(s1, s2) == NoSwap(s1, s2)

Orderable(s1, s2) == NoSwap(s1, s2) \/ Swap(s1, s2)

\* jax.scipy.signal._convolve_nd with mode="same"
convolve_nd(in1, in2) ==
  IF Ndim(in1) # Ndim(in2) THEN Raise("ValueError")
  ELSE IF Size(in1) = 0 \/ Size(in2) = 0 THEN Raise("ValueError")
  ELSE IF ~Orderable(in1.shape, in2.shape) THEN Raise("ValueError")
  ELSE LET shape_o == in2.shape
           a == IF Swap(in1.shape, in2.shape) THEN in2 ELSE in1
           b == IF Swap(in1.shape, in2.shape) THEN in1 ELSE in2
           padding == [d \in 1..2 |-> SamePadding(b.shape[d], shape_o[d])]
       IN Ok(conv_general_dilated(a, Flip(b), padding))

\* jax.scipy.signal.convolve2d(in1, in2, mode="same")
convolve2d(in1, in2) ==
  IF Ndim(in1) # 2 \/ Ndim(in2) # 2 THEN Raise("ValueError")
  ELSE convolve_nd(in1, in2)

\* _convolve_plane
convolve_plane(plane, kernel) == convolve2d(plane, kernel)

\* jnp.array(list of equally shaped 2-D planes); the empty list gives shape (0,).
\* planes maps the list positions 0..n-1 to the planes.
Stack(planes, n) ==
  IF n = 0 THEN Zeros(<<0>>)
  ELSE LET s == planes[0].shape
       IN [shape |-> <<n, s[1], s[2]>>,
           at |-> [p \in (0..(n - 1)) \X (0..(s[1] - 1)) \X (0..(s[2] - 1)) |->
                     planes[p[1]].at[<<p[2], p[3]>>]]]

\* transpose with the reordering left out: the stacked (C, X, Y) array as it is.
TransposeMissing(a, axes) ==
  IF Len(axes) # Ndim(a) THEN Raise("ValueError") ELSE Ok(a)

\* jnp.transpose(a, axes): result.shape[k] = a.shape[axes[k]], and the entry at
\* index j of the result is the entry of a at the index i with i[axes[k]] = j[k].
transpose(a, axes) ==
  IF Len(axes) # Ndim(a) THEN Raise("ValueError")
  ELSE LET shp == [k \in 1..Len(axes) |-> a.shape[axes[k] + 1]]
           inv == [m \in 1..Len(axes) |->
                     CHOOSE k \in 1..Len(axes) : axes[k] + 1 = m]
       IN Ok([shape |-> shp,
              at |-> [j \in Indices(shp) |->
                        a.at[[m \in 1..Len(axes) |-> j[inv[m]]]]]])

\* apply_psf as a function of its arguments: the planes are convolved for
\* i = 0, 1, ..., the first failure ends the call.
apply_psf(cube, kernel) ==
  LET n == ShapeIndex(cube.shape, 2)
  IN IF ~n.ok THEN Raise(n.err)
     ELSE LET conv == [c \in 0..(n.val - 1) |->
                         convolve_plane(Plane(cube, c), kernel)]
          IN IF \E c \in 0..(n.val - 1) : ~conv[c].ok
             THEN Raise(conv[0].err)
             ELSE transpose(Stack([c \in 0..(n.val - 1) |-> conv[c].val], n.val),
                            <<1, 2, 0>>)

---------------------------------------------------------------------------
\* Inputs

CubeShapes ==
  {<< >>} \cup {<<x>> : x \in 0..MaxX}
    \cup ((0..MaxX) \X (0..MaxY))
    \cup ((0..MaxX) \X (0..MaxY) \X (0..MaxC))

KernelShapes == (1..MaxKH) \X (1..MaxKW)

Datacubes == UNION {CubesOf(s) : s \in CubeShapes}

Kernels == UNION {KernelsOf(s) : s \in KernelShapes}

---------------------------------------------------------------------------
\* The call apply_psf(datacube, psf_kernel), one plane at a time

VARIABLES
  datacube,             \* the first argument
  psf_kernel,           \* the second argument
  datacube_dimensions,  \* datacube.shape, once read
  i,                    \* the index the comprehension has reached
  planes,               \* the list under construction: position -> plane
  order,                \* the channels convolved so far, in order of completion
  transposed,           \* the returned array
  ref,                  \* object identity of the arrays the names are bound to
  err,                  \* the exception that ended the call
  pc

vars == <<datacube, psf_kernel, datacube_dimensions, i, planes, order,
          transposed, ref, err, pc>>

Pending == [shape |-> <<"pending">>, at |-> << >>]

Init ==
  /\ datacube \in Datacubes
  /\ psf_kernel \in Kernels
  /\ datacube_dimensions = << >>
  /\ i = 0
  /\ planes = << >>
  /\ order = << >>
  /\ transposed = NoArray
  /\ ref = [datacube |-> 1, psf_kernel |-> 2, transposed |-> 0, fresh |-> 3]
  /\ err = "none"
  /\ pc = "start"

Fail(e) ==
  /\ pc' = "failed"
  /\ err' = e
  /\ UNCHANGED <<datacube, psf_kernel, i, planes, order, transposed, ref>>

\* datacube_dimensions = datacube.shape; range(datacube_dimensions[2])
Enter ==
  /\ pc = "start"
  /\ datacube_dimensions' = datacube.shape
  /\ LET n == ShapeIndex(datacube.shape, 2)
     IN IF ~n.ok THEN Fail(n.err)
        ELSE /\ pc' = "loop"
             /\ planes' = [c \in 0..(n.val - 1) |-> Pending]
             /\ UNCHANGED <<datacube, psf_kernel, i, order, transposed, ref, err>>

\* Place as an append: the plane goes to the first free position of the list.
PlaceAppend(list, c, plane) ==
  LET free == {k \in DOMAIN list : list[k] = Pending}
  IN [list EXCEPT ![CHOOSE k \in free : \A m \in free : k <= m] = plane]

\* The list position the plane of channel c is stored at.
Place(list, c, plane) == [list EXCEPT ![c] = plane]

\* ConvolveChannel writing the convolved plane back into the datacube.
ConvolveChannelInPlace(c) ==
  LET r == convolve_plane(Plane(datacube, c), psf_kernel)
  IN /\ UNCHANGED datacube_dimensions
     /\ IF ~r.ok THEN Fail(r.err)
        ELSE /\ datacube' =
                  [datacube EXCEPT !.at =
                     [p \in DOMAIN @ |->
                        IF p[3] = c THEN r.val.at[<<p[1], p[2]>>] ELSE @[p]]]
             /\ planes' = [planes EXCEPT ![c] = Plane(datacube', c)]
             /\ order' = Append(order, c)
             /\ i' = i + 1
             /\ UNCHANGED <<psf_kernel, transposed, ref, err, pc>>

\* _convolve_plane(datacube[:, :, c], psf_kernel), collected into the list
ConvolveChannel(c) ==
  LET r == convolve_plane(Plane(datacube, c), psf_kernel)
  IN /\ UNCHANGED datacube_dimensions
     /\ IF ~r.ok THEN Fail(r.err)
        ELSE /\ planes' = Place(planes, c, r.val)
             /\ order' = Append(order, c)
             /\ i' = i + 1
             /\ ref' = [ref EXCEPT !.fresh = @ + 2]
             /\ UNCHANGED <<datacube, psf_kernel, transposed, err, pc>>

\* One iteration of the comprehension, for i in range(datacube_dimensions[2])
ConvolvePlane ==
  /\ pc = "loop"
  /\ i < datacube_dimensions[3]
  /\ ConvolveChannel(i)

\* convolved = jnp.array([...]); transposed = jnp.transpose(convolved, (1, 2, 0));
\* return transposed
Assemble ==
  LET convolved == Stack(planes, datacube_dimensions[3])
      t == transpose(convolved, <<1, 2, 0>>)
  IN /\ UNCHANGED datacube_dimensions
     /\ IF ~t.ok THEN Fail(t.err)
        ELSE /\ transposed' = t.val
             /\ ref' = [ref EXCEPT !.transposed = ref.fresh + 1, !.fresh = @ + 2]
             /\ pc' = "done"
             /\ UNCHANGED <<datacube, psf_kernel, i, planes, order, err>>

Return ==
  /\ pc = "loop"
  /\ i = datacube_dimensions[3]
  /\ Assemble

Next == Enter \/ ConvolvePlane \/ Return

Spec == Init /\ [][Next]_vars

\* The channels as independent tasks: any channel not yet convolved may be
\* next, and the planes are assembled once every task has finished.
ConvolveAny ==
  /\ pc = "loop"
  /\ \E c \in DOMAIN planes : planes[c] = Pending /\ ConvolveChannel(c)

Collect ==
  /\ pc = "loop"
  /\ \A c \in DOMAIN planes : planes[c] # Pending
  /\ Assemble

NextPar == Enter \/ ConvolveAny \/ Collect

SpecPar == Init /\ [][NextPar]_vars

---------------------------------------------------------------------------
\* Vocabulary of the properties

Finished == pc \in {"done", "failed"}

NonEmptyCube == Ndim(datacube) = 3 /\ \A d \in 1..3 : datacube.shape[d] >= 1

PlaneShape == <<datacube.shape[1], datacube.shape[2]>>

\* The kernel is no larger than a plane in both axes, or no smaller in both.
Comparable ==
  \/ \A d \in 1..2 : psf_kernel.shape[d] <= PlaneShape[d]
  \/ \A d \in 1..2 : psf_kernel.shape[d] >= PlaneShape[d]

\* The kernel index aligned with the output pixel along an axis of extent s.
Centre(s) == (s - 1) \div 2

\* The zero-padded same-size convolution of plane with kernel at (x, y),
\* written out as the sum over the kernel taps.
SameConvAt(plane, kernel, x, y) ==
  SumF([a \in 0..(kernel.shape[1] - 1) |->
          SumF([b \in 0..(kernel.shape[2] - 1) |->
                  kernel.at[<<a, b>>]
                    * (LET px == x + Centre(kernel.shape[1]) - a
                           py == y + Centre(kernel.shape[2]) - b
                       IN IF px \in 0..(plane.shape[1] - 1)
                             /\ py \in 0..(plane.shape[2] - 1)
                          THEN plane.at[<<px, py>>] ELSE 0)],
               kernel.shape[2])],
       kernel.shape[1])

\* C1 as stated, here for the non-empty datacubes: whatever the kernel, the
\* call returns an array of the datacube's shape.
C1_ShapeForEveryKernel ==
  (Finished /\ NonEmptyCube)
    => (pc = "done" /\ transposed.shape = datacube.shape)

\* C1 amended: for every non-empty (X, Y, C) datacube, square or not, and every
\* kernel that is no larger than a plane in both axes or no smaller in both,
\* the call returns an array of shape exactly (X, Y, C).
C1_ShapePreserved ==
  (Finished /\ NonEmptyCube /\ Comparable)
    => (/\ pc = "done"
        /\ transposed.shape = datacube.shape
        /\ DOMAIN transposed.at = Indices(datacube.shape))

C1_Witness ==
  /\ pc = "done"
  /\ datacube.shape = <<3, 1, 2>>
  /\ psf_kernel.shape = <<2, 1>>
  /\ transposed.shape = <<3, 1, 2>>

\* C2: whenever the call returns, the value at [x, y, c] is the same-size
\* zero-padded convolution of plane c with the kernel at (x, y), the kernel
\* entry at Centre aligned with the output pixel.
C2_SameConvolution ==
  pc = "done" =>
    \A p \in Indices(datacube.shape) :
      transposed.at[p] = SameConvAt(Plane(datacube, p[3]), psf_kernel, p[1], p[2])

C2_Witness ==
  /\ pc = "done"
  /\ datacube = Ramp(<<3, 2, 2>>)
  /\ psf_kernel = Ramp(<<3, 2>>)

\* A kernel that is zero except for a 1 at a middle entry: the middle entry of
\* an odd extent, either of the two middle entries of an even extent.
MiddleEntries(shape) ==
  {q \in Indices(shape) : \A d \in 1..2 : q[d] \in {(shape[d] - 1) \div 2, shape[d] \div 2}}

\* C3 as stated, here for the calls that return: a unit kernel with its 1 at
\* a middle entry, of odd or even extent, gives back the datacube.
C3_IdentityAnyMiddle ==
  (Finished /\ NonEmptyCube /\ Comparable
     /\ \E q \in MiddleEntries(psf_kernel.shape) :
          psf_kernel = Delta(psf_kernel.shape, q))
    => (pc = "done" /\ transposed = datacube)

\* C3 amended: for a non-empty datacube and a kernel that is zero except for a
\* 1 at index ((h-1) div 2, (w-1) div 2), no larger than a plane in both axes
\* or no smaller in both, the call returns the datacube unchanged.
C3_IdentityAtCentre ==
  (Finished /\ NonEmptyCube /\ Comparable
     /\ psf_kernel = Delta(psf_kernel.shape,
                           <<Centre(psf_kernel.shape[1]), Centre(psf_kernel.shape[2])>>))
    => (pc = "done" /\ transposed = datacube)

C3_Witness ==
  /\ pc = "done"
  /\ datacube = Ramp(<<3, 2, 2>>)
  /\ psf_kernel = Delta(<<3, 2>>, <<1, 0>>)
  /\ transposed = datacube

\* C4: no step of the call changes the datacube or the kernel, nor the objects
\* the two names are bound to, and the array returned is neither of them.
C4_ArgumentsUnchanged ==
  [][/\ datacube' = datacube
     /\ psf_kernel' = psf_kernel
     /\ ref'.datacube = ref.datacube
     /\ ref'.psf_kernel = ref.psf_kernel
     /\ (pc' = "done" => ref'.transposed \notin {ref'.datacube, ref'.psf_kernel})]_vars

C4_Witness ==
  /\ pc = "done"
  /\ datacube = Ones(<<3, 2, 1>>)
  /\ psf_kernel = Ones(<<3, 2>>)
  /\ transposed # datacube
  /\ ref.transposed \notin {ref.datacube, ref.psf_kernel}

\* The datacubes of the shape of cube that hold the values of cube on channel c.
AgreeingOn(cube, c) ==
  {[shape |-> cube.shape,
    at |-> [p \in DOMAIN cube.at |-> IF p[3] = c THEN cube.at[p] ELSE o.at[p]]] :
     o \in {Zeros(cube.shape), Ones(cube.shape), Ramp(cube.shape)}}

\* C5: whenever the call returns, every datacube of the same shape that agrees
\* with the input on channel c gives, with the same kernel, the same output on
\* channel c.
C5_ChannelsIndependent ==
  pc = "done" =>
    \A c \in 0..(datacube.shape[3] - 1) :
      \A other \in AgreeingOn(datacube, c) :
        LET out == apply_psf(other, psf_kernel)
        IN /\ out.ok
           /\ \A p \in Indices(datacube.shape) :
                p[3] = c => out.val.at[p] = transposed.at[p]

C5_Witness ==
  /\ pc = "done"
  /\ datacube = Delta(<<3, 2, 2>>, <<1, 1, 1>>)
  /\ psf_kernel = Ones(<<3, 2>>)
  /\ \E p \in Indices(datacube.shape) : p[3] = 1 /\ transposed.at[p] # 0
  /\ \A p \in Indices(datacube.shape) : p[3] = 0 => transposed.at[p] = 0

KernelExceeds ==
  \E d \in 1..2 : psf_kernel.shape[d] > PlaneShape[d]

\* C7 as stated, whatever the exception is called: a kernel with more extent
\* than a plane in either axis makes the call fail.
C7_LargerKernelFails ==
  (Finished /\ NonEmptyCube /\ KernelExceeds) => pc = "failed"

\* C7 amended: for a non-empty datacube, a kernel larger than a plane in one
\* axis and smaller in the other makes the call fail in the first convolution
\* (ValueError of convolve2d) with nothing returned; a kernel larger in an axis
\* and nowhere smaller is accepted, and the call returns the (X, Y, C) array of
\* the same-size convolutions.
C7_LargerKernel ==
  (Finished /\ NonEmptyCube /\ KernelExceeds) =>
    IF Comparable
    THEN /\ pc = "done"
         /\ transposed.shape = datacube.shape
         /\ \A p \in Indices(datacube.shape) :
              transposed.at[p]
                = SameConvAt(Plane(datacube, p[3]), psf_kernel, p[1], p[2])
    ELSE /\ pc = "failed"
         /\ err = "ValueError"
         /\ order = << >>
         /\ transposed = NoArray

C7_Witness ==
  /\ pc = "done"
  /\ datacube = Ramp(<<2, 1, 2>>)
  /\ psf_kernel = Ones(<<3, 2>>)
  /\ transposed.shape = <<2, 1, 2>>

\* Every pixel a non-zero value of the plane is spread to lies in the plane.
ContentInside(plane, kernel) ==
  \A p \in DOMAIN plane.at :
    plane.at[p] # 0 =>
      \A d \in 1..2 :
        /\ p[d] - Centre(kernel.shape[d]) >= 0
        /\ p[d] + (kernel.shape[d] - 1 - Centre(kernel.shape[d])) <= plane.shape[d] - 1

\* C8: whenever the call returns, a plane whose non-zero values all have their
\* kernel footprint inside the plane keeps its total, scaled by the sum K of
\* the kernel weights.
C8_FluxPreserved ==
  pc = "done" =>
    \A c \in 0..(datacube.shape[3] - 1) :
      ContentInside(Plane(datacube, c), psf_kernel)
        => Total(Plane(transposed, c))
             = Total(psf_kernel) * Total(Plane(datacube, c))

C8_Witness ==
  /\ pc = "done"
  /\ datacube = Delta(<<3, 2, 1>>, <<1, 0, 0>>)
  /\ psf_kernel = Ramp(<<3, 2>>)
  /\ Total(Plane(transposed, 0)) = 21

====
